---- MODULE Spec2Model ----
(***************************************************************************)
(* Filmliste ingestion of the kuckmal API server: the download service,    *)
(* the parser service (decompression, record resolution and mapping,       *)
(* batched upsert), the filmlist routes that chain them, and the SQLite    *)
(* store behind them.                                                      *)
(*                                                                         *)
(* Strings of the program are sequences of one-character strings, so that  *)
(* int(), lower() and the emptiness tests are computed as Python computes  *)
(* them.  Status messages are records [text, n]: the fixed text and the    *)
(* number formatted into it.                                               *)
(***************************************************************************)
EXTENDS Integers, Sequences, FiniteSets, TLC

\* Longest feed (records per Filmliste file) the model draws.
MaxFeedLen == 3

\* Longest feed of short records drawn for the resolution of channel and
\* theme.
MaxTokenFeedLen == 3

\* config.PARSER_BATCH_SIZE is 5000 entries per batch; the model scales it
\* down so that a feed of MaxFeedLen records spans more than one batch.
PARSER_BATCH_SIZE == 2

\* Request threads of the threaded Flask server.
Threads == {1, 2}

----------------------------------------------------------------------------
(* Strings *)

Empty == <<>>

IsDigit(c) == c \in {"0", "1", "2", "3", "4", "5", "6", "7", "8", "9"}

DigitVal(c) ==
  CASE c = "0" -> 0 [] c = "1" -> 1 [] c = "2" -> 2 [] c = "3" -> 3
    [] c = "4" -> 4 [] c = "5" -> 5 [] c = "6" -> 6 [] c = "7" -> 7
    [] c = "8" -> 8 [] c = "9" -> 9 [] OTHER -> 0

IsSpace(c) == c \in {" ", "\t", "\n", "\r"}

RECURSIVE DigitsValue(_, _)
DigitsValue(s, acc) ==
  IF s = <<>> THEN acc
  ELSE IF Head(s) = "_" THEN DigitsValue(Tail(s), acc)
  ELSE DigitsValue(Tail(s), acc * 10 + DigitVal(Head(s)))

RECURSIVE StripLeft(_)
StripLeft(s) == IF s # <<>> /\ IsSpace(Head(s)) THEN StripLeft(Tail(s)) ELSE s

RECURSIVE StripRight(_)
StripRight(s) ==
  IF s # <<>> /\ IsSpace(s[Len(s)]) THEN StripRight(SubSeq(s, 1, Len(s) - 1)) ELSE s

Strip(s) == StripRight(StripLeft(s))

\* Python's int(s) for a str: surrounding whitespace is ignored, one sign is
\* allowed, the rest must be decimal digits, single underscores between two
\* digits allowed; anything else is a ValueError.
IntBody(s) ==
  LET t == Strip(s) IN
  IF t # <<>> /\ Head(t) \in {"+", "-"} THEN Tail(t) ELSE t

IntParses(s) ==
  LET b == IntBody(s) IN
  /\ b # <<>>
  /\ \A i \in 1..Len(b) :
       \/ IsDigit(b[i])
       \/ /\ b[i] = "_"
          /\ 1 < i /\ i < Len(b)
          /\ IsDigit(b[i - 1]) /\ IsDigit(b[i + 1])

IntValue(s) ==
  LET t == Strip(s) IN
  IF t # <<>> /\ Head(t) = "-" THEN 0 - DigitsValue(IntBody(s), 0)
  ELSE DigitsValue(IntBody(s), 0)

LowerChar(c) ==
  CASE c = "T" -> "t" [] c = "R" -> "r" [] c = "U" -> "u" [] c = "E" -> "e"
    [] c = "F" -> "f" [] c = "A" -> "a" [] c = "L" -> "l" [] c = "S" -> "s"
    [] OTHER -> c

Lower(s) == [i \in 1..Len(s) |-> LowerChar(s[i])]

----------------------------------------------------------------------------
(* Record resolution and mapping: the body of parse_and_import's loop *)

\* values[i] if len(values) > i else ""   (i is the Python index)
\* The length test off by one: the token before index i is taken.
TokenBefore(values, i) == IF Len(values) >= i /\ i > 0 THEN values[i] ELSE Empty

TokenAt(values, i) == IF Len(values) > i THEN values[i + 1] ELSE Empty

ParseTimestamp(values) ==
  IF Len(values) > 16 /\ values[17] # Empty /\ IntParses(values[17])
  THEN IntValue(values[17])
  ELSE 0

\* The comparison made without lower().
ParseIsNewCaseSensitive(values) ==
  IF Len(values) > 19 /\ values[20] # Empty
  THEN values[20] = <<"t", "r", "u", "e">>
  ELSE FALSE

ParseIsNew(values) ==
  IF Len(values) > 19 /\ values[20] # Empty
  THEN Lower(values[20]) = <<"t", "r", "u", "e">>
  ELSE FALSE

EntryData(values, channel, theme) ==
  [channel     |-> channel,
   theme       |-> theme,
   title       |-> TokenAt(values, 2),
   date        |-> TokenAt(values, 3),
   time        |-> TokenAt(values, 4),
   duration    |-> TokenAt(values, 5),
   sizeMB      |-> TokenAt(values, 6),
   description |-> TokenAt(values, 7),
   url         |-> TokenAt(values, 8),
   website     |-> TokenAt(values, 9),
   subtitleUrl |-> TokenAt(values, 10),
   smallUrl    |-> TokenAt(values, 12),
   hdUrl       |-> TokenAt(values, 14),
   timestamp   |-> ParseTimestamp(values),
   geo         |-> TokenAt(values, 18),
   isNew       |-> ParseIsNew(values)]

\* channel = values[0] if values[0] else prev_channel (and theme likewise)
ResolveChannel(values, prev_channel) ==
  IF values[1] # Empty THEN values[1] ELSE prev_channel

ResolveTheme(values, prev_theme) ==
  IF values[2] # Empty THEN values[2] ELSE prev_theme

\* ProcessRecord with the context set to the record's raw tokens.
ProcessRecordRawContext(values, ctx) ==
  IF Len(values) < 3 THEN [ctx |-> ctx, out |-> <<>>]
  ELSE LET channel == ResolveChannel(values, ctx.channel)
           theme == ResolveTheme(values, ctx.theme)
           nctx == [channel |-> values[1], theme |-> values[2]]
       IN
       IF channel = Empty \/ theme = Empty
       THEN [ctx |-> nctx, out |-> <<>>]
       ELSE [ctx |-> nctx, out |-> <<EntryData(values, channel, theme)>>]

\* ProcessRecord dropping a record only when channel and theme are both empty.
ProcessRecordDropBothEmpty(values, ctx) ==
  IF Len(values) < 3 THEN [ctx |-> ctx, out |-> <<>>]
  ELSE LET channel == ResolveChannel(values, ctx.channel)
           theme == ResolveTheme(values, ctx.theme)
           nctx == [channel |-> channel, theme |-> theme]
       IN
       IF channel = Empty /\ theme = Empty
       THEN [ctx |-> nctx, out |-> <<>>]
       ELSE [ctx |-> nctx, out |-> <<EntryData(values, channel, theme)>>]

\* ProcessRecord without the test of the number of tokens.
ProcessRecordNoLengthTest(values, ctx) ==
  LET channel == ResolveChannel(values, ctx.channel)
      theme == ResolveTheme(values, ctx.theme)
      nctx == [channel |-> channel, theme |-> theme]
  IN
  IF channel = Empty \/ theme = Empty
  THEN [ctx |-> nctx, out |-> <<>>]
  ELSE [ctx |-> nctx, out |-> <<EntryData(values, channel, theme)>>]

\* ProcessRecord with the context updated after the test that drops the
\* record, so that a dropped record leaves the context as it was.
ProcessRecordKeepContextOnDrop(values, ctx) ==
  IF Len(values) < 3 THEN [ctx |-> ctx, out |-> <<>>]
  ELSE LET channel == ResolveChannel(values, ctx.channel)
           theme == ResolveTheme(values, ctx.theme)
           nctx == [channel |-> channel, theme |-> theme]
       IN
       IF channel = Empty \/ theme = Empty
       THEN [ctx |-> ctx, out |-> <<>>]
       ELSE [ctx |-> nctx, out |-> <<EntryData(values, channel, theme)>>]

\* One pass of the loop body over the token list of one matched array, from
\* the length test to entries.append: the context carried to the next record
\* (prev_channel, prev_theme = channel, theme) and the entries appended
\* (none or one).
ProcessRecord(values, ctx) ==
  IF Len(values) < 3 THEN [ctx |-> ctx, out |-> <<>>]
  ELSE LET channel == ResolveChannel(values, ctx.channel)
           theme == ResolveTheme(values, ctx.theme)
           nctx == [channel |-> channel, theme |-> theme]
       IN
       IF channel = Empty \/ theme = Empty
       THEN [ctx |-> nctx, out |-> <<>>]
       ELSE [ctx |-> nctx, out |-> <<EntryData(values, channel, theme)>>]

\* A context that starts with the values another run left behind.
LeftoverContext == [channel |-> <<"A">>, theme |-> <<"T">>]

\* prev_channel = ""; prev_theme = ""
EmptyContext == [channel |-> Empty, theme |-> Empty]

----------------------------------------------------------------------------
(* The store: table media_entries behind the one shared SQLite connection *)

KeyOf(e) == <<e.channel, e.theme, e.title>>

NonKeyFields ==
  {"date", "time", "duration", "sizeMB", "description", "url", "website",
   "subtitleUrl", "smallUrl", "hdUrl", "timestamp", "geo", "isNew"}

\* INSERT OR REPLACE: the conflicting row gives way to the new one.
InsertOrReplace(rows, e) ==
  {r \in rows : KeyOf(r) # KeyOf(e)} \cup {e}

\* INSERT ... ON CONFLICT (channel, theme, title) DO NOTHING
OnConflictDoNothing(rows, e) ==
  IF \E r \in rows : KeyOf(r) = KeyOf(e) THEN rows ELSE rows \cup {e}

\* The update with the geo column missing from set_.
OnConflictDoUpdateWithoutGeo(rows, e) ==
  IF \E r \in rows : KeyOf(r) = KeyOf(e)
  THEN {IF KeyOf(r) = KeyOf(e)
        THEN [f \in DOMAIN r |-> IF f \in NonKeyFields \ {"geo"} THEN e[f] ELSE r[f]]
        ELSE r : r \in rows}
  ELSE rows \cup {e}

\* The update with title missing from the conflict target: every row of the
\* entry's channel and theme is overwritten.
OnConflictDoUpdateWholeTheme(rows, e) ==
  IF \E r \in rows : r.channel = e.channel /\ r.theme = e.theme
  THEN {IF r.channel = e.channel /\ r.theme = e.theme
        THEN [f \in DOMAIN r |-> IF f \in NonKeyFields THEN e[f] ELSE r[f]]
        ELSE r : r \in rows}
  ELSE rows \cup {e}

\* INSERT ... ON CONFLICT (channel, theme, title) DO UPDATE SET <13 columns>
OnConflictDoUpdate(rows, e) ==
  IF \E r \in rows : KeyOf(r) = KeyOf(e)
  THEN {IF KeyOf(r) = KeyOf(e)
        THEN [f \in DOMAIN r |-> IF f \in NonKeyFields THEN e[f] ELSE r[f]]
        ELSE r : r \in rows}
  ELSE rows \cup {e}

\* A plain INSERT on a table without the unique index.
ExecutePlainInsert(rows, e, is_diff) == rows \cup {e}

\* One statement of _insert_batch, executed on the connection's transaction.
ExecuteInsert(rows, e, is_diff) ==
  IF is_diff THEN OnConflictDoUpdate(rows, e) ELSE OnConflictDoNothing(rows, e)

----------------------------------------------------------------------------
(* Inputs: the Filmliste files the server downloads *)

A == <<"A">>
T == <<"T">>

\* A complete 20-token record; every token carries its index letter and the
\* payload digit p, the timestamp token is the digit, the isNew token is
\* "true" for payload 1 and "false" otherwise.
FullRecord(channel, theme, title, p) ==
  <<channel, theme, title,
    <<"d", p>>, <<"t", p>>, <<"l", p>>, <<"m", p>>, <<"b", p>>, <<"u", p>>,
    <<"w", p>>, <<"s", p>>, <<"r", p>>, <<"k", p>>, <<"q", p>>, <<"h", p>>,
    <<"o", p>>, <<p>>, <<"i", p>>, <<"g", p>>,
    IF p = "1" THEN <<"t", "r", "u", "e">> ELSE <<"f", "a", "l", "s", "e">> >>

\* The records feeds are built from: a complete record with its own channel
\* and theme, a complete record that inherits both (same title, other
\* payload), and a three-token record that inherits both (other title).
\* The inheriting records resolve to an empty channel and theme, and are
\* dropped, when no record with a channel and a theme precedes them.
Catalog ==
  { FullRecord(A, T, <<"x">>, "1"),
    FullRecord(Empty, Empty, <<"x">>, "2"),
    <<Empty, Empty, <<"y">>>> }

\* isNew tokens: spellings of true, and others.
IsNewTokens ==
  { <<"t", "r", "u", "e">>, <<"T", "R", "U", "E">>, <<"T", "r", "u", "e">>,
    <<"t", "R", "u", "E">>, Empty, <<"f", "a", "l", "s", "e">>, <<"0">>, <<"1">>,
    <<" ", "t", "r", "u", "e">>, <<"t", "r", "u", "e", "e">>, <<"t", "r", "u">> }

\* Timestamp tokens: integers, and texts that are none.
TimestampTokens ==
  { <<"7">>, <<"1", "2">>, <<"-", "3">>, <<"0">>, Empty, <<"x">>, <<"1", ".", "5">>,
    <<"1", "2", "x">>, <<"1", " ", "2">> }

\* Records of every length from 3 tokens to 20, and complete records with
\* each of the isNew and timestamp tokens; all of channel A, theme T and
\* title x.
FieldRecords ==
  {SubSeq(FullRecord(A, T, <<"x">>, "1"), 1, n) : n \in 3..20}
    \cup {[FullRecord(A, T, <<"x">>, "1") EXCEPT ![20] = tok] : tok \in IsNewTokens}
    \cup {[FullRecord(A, T, <<"x">>, "1") EXCEPT ![17] = tok] : tok \in TimestampTokens}

\* Feeds of one such record followed by the complete records of another
\* title that fill the first batch.
FieldFeeds ==
  {<<r>> \o [i \in 1..(PARSER_BATCH_SIZE - 1) |-> FullRecord(A, T, <<"y">>, "2")]
     : r \in FieldRecords}

\* Feeds that fill two batches and leave one record over: complete records
\* of two titles in turn, and the same with a record of no channel in front.
ProgressFeeds ==
  LET turn == [i \in 1..(2 * PARSER_BATCH_SIZE + 1) |->
                 IF i % 2 = 1 THEN FullRecord(A, T, <<"x">>, "1")
                 ELSE FullRecord(Empty, Empty, <<"y">>, "2")]
  IN {turn, <<FullRecord(Empty, Empty, <<"x">>, "2")>> \o turn}

RECURSIVE SeqsUpTo(_, _)
SeqsUpTo(S, n) ==
  IF n = 0 THEN {<<>>}
  ELSE LET shorter == SeqsUpTo(S, n - 1) IN
       shorter \cup {Append(s, x) : s \in {q \in shorter : Len(q) = n - 1}, x \in S}

Feeds == SeqsUpTo(Catalog, MaxFeedLen) \ {<<>>}

B == <<"B">>

\* Short records for the resolution of channel and theme: one with both
\* tokens, one with neither, one with a channel only, one with a theme only,
\* and one of two tokens, which the loop skips.
TokenCatalog ==
  { <<A, T, <<"x">>>>,
    <<Empty, Empty, <<"y">>>>,
    <<B, Empty, <<"x">>>>,
    <<Empty, T, <<"y">>>>,
    <<B, T>> }

TokenFeeds == SeqsUpTo(TokenCatalog, MaxTokenFeedLen) \ {<<>>}

\* The .xz file served at FILMLIST_URL / DIFF_URL: one compressed block per
\* 8 KiB chunk, one record per block.
XzBlock(values) == [xz |-> values]
Compress(records) == [i \in 1..Len(records) |-> XzBlock(records[i])]
Decompress(block) == block.xz

----------------------------------------------------------------------------
(* State *)

VARIABLES
  feed,                    \* the records of the file the server downloads
  pc,                      \* per request thread: where it is
  loc,                     \* per request thread: its locals and temp files
  download_status,         \* DownloadService.status
  is_downloading,          \* DownloadService.is_downloading
  download_should_cancel,  \* DownloadService.should_cancel
  parser_status,           \* ParserService.status
  parser_should_cancel,    \* ParserService.should_cancel
  dbWork,                  \* rows as the shared connection sees them
  dbDurable,               \* rows as committed
  observed,                \* the dict the latest get_status call returned
  call,                    \* the latest call of a helper function: what its
                           \* arguments were written from, the arguments,
                           \* the result
  cache,                   \* SearchService._cache: key -> (results, time)
  now,                     \* time.time()
  srch,                    \* per request thread: its search call
  returned                 \* the latest search call that ran the query:
                           \* its key, what it returned, the rows it ran on

vars == <<feed, pc, loc, download_status, is_downloading, download_should_cancel,
          parser_status, parser_should_cancel, dbWork, dbDurable, observed,
          call, cache, now, srch, returned>>

Msg(text, n) == [text |-> text, n |-> n]

DownloadStatus(state, progress, downloaded, total, message) ==
  [state |-> state, progress |-> progress, downloaded |-> downloaded,
   total |-> total, message |-> message]

ParserStatus(state, progress, entries_parsed, message) ==
  [state |-> state, progress |-> progress, entries_parsed |-> entries_parsed,
   message |-> message]

\* A request thread's locals: the route it serves, the files in its
\* temporary directory, the locals of _download_file and parse_and_import,
\* and a log of the calls the run made (flushed, committed, callbacks, base).
\* A dict without keys.
NoEntries == [k \in {} |-> k]

\* A thread that is in no search call.
NoSearch == [at |-> "idle", key |-> <<>>, results |-> <<>>, total |-> 0,
             oldest_key |-> <<>>, hit |-> FALSE, raised |-> ""]

\* No search call has run its query.
NoReturn == [key |-> <<>>, results |-> <<>>, total |-> 0, rows |-> {}]

\* No helper function has been called.
NoCall == [fn |-> "none", input |-> <<>>, args |-> <<>>, result |-> <<>>]

InitLocals ==
  [route          |-> "none",
   xz             |-> <<>>,
   json           |-> <<>>,
   total_bytes    |-> 0,
   downloaded     |-> 0,
   dl_ok          |-> FALSE,
   content        |-> <<>>,
   idx            |-> 1,
   entries        |-> <<>>,
   ctx            |-> EmptyContext,
   total_imported |-> 0,
   k              |-> 1,
   resume         |-> "loop",
   broke          |-> FALSE,
   result         |-> 0,
   flushed        |-> <<>>,
   committed      |-> 0,
   callbacks      |-> <<>>,
   base           |-> {}]

\* The services and the store after create_app, before any request.
Started ==
  /\ pc = [t \in Threads |-> "idle"]
  /\ loc = [t \in Threads |-> InitLocals]
  /\ download_status = DownloadStatus("idle", 0, 0, 0, Msg("", 0))
  /\ is_downloading = FALSE
  /\ download_should_cancel = FALSE
  /\ parser_status = ParserStatus("idle", 0, 0, Msg("", 0))
  /\ parser_should_cancel = FALSE
  /\ dbWork = {}
  /\ dbDurable = {}
  /\ observed = [service |-> "none", status |-> <<>>]
  /\ call = NoCall
  /\ cache = NoEntries
  /\ now = 0
  /\ srch = [t \in Threads |-> NoSearch]
  /\ returned = NoReturn

Init == feed \in Feeds /\ Started

Goto(t, p) == pc' = [pc EXCEPT ![t] = p]

dlVars == <<download_status, is_downloading, download_should_cancel>>
psVars == <<parser_status, parser_should_cancel>>
dbVars == <<dbWork, dbDurable>>
searchVars == <<cache, now, srch, returned>>

SetLoc(t, l) == loc' = [loc EXCEPT ![t] = l]

----------------------------------------------------------------------------
(* Requests *)

\* POST /api/filmlist/download (full) or /api/filmlist/diff (diff): the
\* generator enters its temporary directory and calls the download.
RouteStart(t) ==
  /\ pc[t] = "idle"
  /\ \E kind \in {"full", "diff"} : SetLoc(t, [InitLocals EXCEPT !.route = kind])
  /\ Goto(t, "dl_guard")
  /\ UNCHANGED <<feed, searchVars, call, observed, dlVars, psVars, dbVars>>

\* POST /api/filmlist/cancel: download_service.cancel(); parser_service.cancel()
Cancel ==
  /\ download_should_cancel' = TRUE
  /\ parser_should_cancel' = TRUE
  /\ UNCHANGED <<feed, searchVars, call, observed, pc, loc, download_status, is_downloading, parser_status, dbVars>>

\* DELETE /api/entries: MediaService.delete_all_entries (delete, commit)
DeleteAllEntries(t) ==
  /\ pc[t] = "idle"
  /\ dbWork' = {}
  /\ dbDurable' = {}
  /\ UNCHANGED <<feed, searchVars, call, observed, pc, loc, dlVars, psVars>>

----------------------------------------------------------------------------
(* DownloadService._download_file *)

\* The guard with its test gone: every start attempt is let through.
GuardNeverRejects(flag) == FALSE

\* if self.is_downloading
GuardRejects(flag) == flag

\* The block under self._lock: reject when a download is active, else take
\* the is_downloading flag and reset status and should_cancel.
DownloadGuard(t) ==
  /\ pc[t] = "dl_guard"
  /\ IF GuardRejects(is_downloading)
     THEN /\ download_status' =
               DownloadStatus("error", 0, 0, 0, Msg("Download already in progress", 0))
          /\ Goto(t, "r_dl_failed")
          /\ UNCHANGED <<is_downloading, download_should_cancel>>
     ELSE /\ is_downloading' = TRUE
          /\ download_should_cancel' = FALSE
          /\ download_status' =
               DownloadStatus("downloading", 0, 0, 0, Msg("Starting download...", 0))
          /\ Goto(t, "dl_head")
  /\ UNCHANGED <<feed, searchVars, call, observed, loc, psVars, dbVars>>

\* HEAD for the content length (one unit per chunk), the status update, the
\* streaming GET and the open of the output file.
DownloadHead(t) ==
  /\ pc[t] = "dl_head"
  /\ LET total == Len(Compress(feed)) IN
     /\ SetLoc(t, [loc[t] EXCEPT !.total_bytes = total, !.downloaded = 0, !.xz = <<>>])
     /\ download_status' =
          [download_status EXCEPT !.total = total, !.message = Msg("Downloading MB", total)]
  /\ Goto(t, "dl_loop")
  /\ UNCHANGED <<feed, searchVars, call, observed, is_downloading, download_should_cancel, psVars, dbVars>>

\* One iteration of the iter_content loop: the cancellation test, then the
\* write of the chunk and the first statement of the progress update,
\* self.status["progress"] = progress.
DownloadChunk(t) ==
  /\ pc[t] = "dl_loop"
  /\ loc[t].downloaded < Len(Compress(feed))
  /\ IF download_should_cancel
     THEN /\ download_status' =
               DownloadStatus("cancelled", 0, loc[t].downloaded, loc[t].total_bytes,
                              Msg("Download cancelled", 0))
          /\ SetLoc(t, [loc[t] EXCEPT !.dl_ok = FALSE])
          /\ Goto(t, "dl_finally")
     ELSE LET downloaded == loc[t].downloaded + 1
              chunk == Compress(feed)[downloaded]
          IN
          /\ SetLoc(t, [loc[t] EXCEPT !.xz = Append(@, chunk), !.downloaded = downloaded])
          /\ IF loc[t].total_bytes > 0
             THEN /\ download_status' =
                       [download_status EXCEPT
                          !.progress = (downloaded * 100) \div loc[t].total_bytes]
                  /\ Goto(t, "dl_progress")
             ELSE UNCHANGED <<download_status, pc>>
  /\ UNCHANGED <<feed, searchVars, call, observed, is_downloading, download_should_cancel, psVars, dbVars>>

\* The second statement of the progress update,
\* self.status["downloaded"] = downloaded, and the progress callback.
DownloadChunkDownloaded(t) ==
  /\ pc[t] = "dl_progress"
  /\ download_status' = [download_status EXCEPT !.downloaded = loc[t].downloaded]
  /\ Goto(t, "dl_loop")
  /\ UNCHANGED <<feed, searchVars, call, observed, loc, is_downloading, download_should_cancel, psVars, dbVars>>

\* DownloadService.get_status from another request: self.status.copy()
DownloadServiceGetStatus ==
  /\ observed' = [service |-> "download", status |-> download_status]
  /\ UNCHANGED <<feed, searchVars, call, pc, loc, dlVars, psVars, dbVars>>

\* The loop is exhausted: status download_complete, return True.
DownloadComplete(t) ==
  /\ pc[t] = "dl_loop"
  /\ loc[t].downloaded = Len(Compress(feed))
  /\ download_status' =
       DownloadStatus("download_complete", 100, loc[t].downloaded, loc[t].total_bytes,
                      Msg("Download complete", 0))
  /\ SetLoc(t, [loc[t] EXCEPT !.dl_ok = TRUE])
  /\ Goto(t, "dl_finally")
  /\ UNCHANGED <<feed, searchVars, call, observed, is_downloading, download_should_cancel, psVars, dbVars>>

\* requests.Timeout, requests.RequestException or IOError inside the try.
DownloadError(t) ==
  /\ pc[t] \in {"dl_head", "dl_loop"}
  /\ \E text \in {"Download timed out", "Download error", "File write error"} :
       download_status' = DownloadStatus("error", 0, 0, 0, Msg(text, 0))
  /\ SetLoc(t, [loc[t] EXCEPT !.dl_ok = FALSE])
  /\ Goto(t, "dl_finally")
  /\ UNCHANGED <<feed, searchVars, call, observed, is_downloading, download_should_cancel, psVars, dbVars>>

\* An exception that no except clause names (int() of a content-length
\* header that is no number raises ValueError): the status stays as it is,
\* the finally clause runs and the exception ends the request.
DownloadUnexpected(t) ==
  /\ pc[t] \in {"dl_head", "dl_loop"}
  /\ SetLoc(t, [loc[t] EXCEPT !.dl_ok = FALSE])
  /\ Goto(t, "dl_finally")
  /\ UNCHANGED <<feed, searchVars, call, observed, dlVars, psVars, dbVars>>

\* finally: with self._lock: self.is_downloading = False; then the route
\* goes on to the decompression or, on failure, to its error event.
DownloadFinally(t) ==
  /\ pc[t] = "dl_finally"
  /\ is_downloading' = FALSE
  /\ Goto(t, IF loc[t].dl_ok THEN "dec_start" ELSE "r_dl_failed")
  /\ UNCHANGED <<feed, searchVars, call, observed, loc, download_status, download_should_cancel, psVars, dbVars>>

\* The route after a failed download: the error event, return (or the
\* exception leaves the generator); the temporary directory and the locals
\* are gone.
RouteDownloadFailed(t) ==
  /\ pc[t] = "r_dl_failed"
  /\ SetLoc(t, InitLocals)
  /\ Goto(t, "idle")
  /\ UNCHANGED <<feed, searchVars, call, observed, dlVars, psVars, dbVars>>

----------------------------------------------------------------------------
(* ParserService.decompress_xz *)

\* The status reset and the open of both files (the output is truncated).
DecompressStart(t) ==
  /\ pc[t] = "dec_start"
  /\ parser_status' = ParserStatus("decompressing", 0, 0, Msg("Decompressing file...", 0))
  /\ SetLoc(t, [loc[t] EXCEPT !.json = <<>>])
  /\ Goto(t, "dec_loop")
  /\ UNCHANGED <<feed, searchVars, call, observed, dlVars, parser_should_cancel, dbVars>>

\* The loop without its cancellation test.
CancelIgnored(flag) == FALSE

\* if self.should_cancel
CancelSeen(flag) == flag

\* One iteration with a chunk: write it, then test should_cancel.
DecompressChunk(t) ==
  /\ pc[t] = "dec_loop"
  /\ Len(loc[t].json) < Len(loc[t].xz)
  /\ SetLoc(t, [loc[t] EXCEPT !.json = Append(@, Decompress(loc[t].xz[Len(loc[t].json) + 1]))])
  /\ Goto(t, IF CancelSeen(parser_should_cancel) THEN "r_dec_failed" ELSE "dec_loop")
  /\ UNCHANGED <<feed, searchVars, call, observed, dlVars, psVars, dbVars>>

\* The read returns no chunk: break, the files are closed and
\* self.status["state"] = "decompress_complete".
DecompressComplete(t) ==
  /\ pc[t] = "dec_loop"
  /\ Len(loc[t].json) = Len(loc[t].xz)
  /\ parser_status' = [parser_status EXCEPT !.state = "decompress_complete"]
  /\ Goto(t, "dec_done")
  /\ UNCHANGED <<feed, searchVars, call, observed, loc, dlVars, parser_should_cancel, dbVars>>

\* self.status["message"] = "Decompression complete"; return True.  The full
\* route clears the table next, the diff route imports at once.
DecompressReturn(t) ==
  /\ pc[t] = "dec_done"
  /\ parser_status' = [parser_status EXCEPT !.message = Msg("Decompression complete", 0)]
  /\ Goto(t, IF loc[t].route = "full" THEN "r_clear" ELSE "p_start")
  /\ UNCHANGED <<feed, searchVars, call, observed, loc, dlVars, parser_should_cancel, dbVars>>

\* ParserService.get_status from another request: self.status.copy()
ParserServiceGetStatus ==
  /\ observed' = [service |-> "parser", status |-> parser_status]
  /\ UNCHANGED <<feed, searchVars, call, pc, loc, dlVars, psVars, dbVars>>

\* lzma.LZMAError or IOError: status error, return False.
DecompressError(t) ==
  /\ pc[t] = "dec_loop"
  /\ \E text \in {"Decompression error", "File error"} :
       parser_status' = ParserStatus("error", 0, 0, Msg(text, 0))
  /\ Goto(t, "r_dec_failed")
  /\ UNCHANGED <<feed, searchVars, call, observed, loc, dlVars, parser_should_cancel, dbVars>>

\* The compressed file ends before its end-of-stream marker (a truncated or
\* empty file): f_in.read raises EOFError, which is neither lzma.LZMAError
\* nor IOError, so no except clause handles it and it leaves decompress_xz
\* with the status untouched.
DecompressEOFError(t) ==
  /\ pc[t] = "dec_loop"
  /\ Goto(t, "r_dec_raised")
  /\ UNCHANGED <<feed, searchVars, call, observed, loc, dlVars, psVars, dbVars>>

\* The return missing from the branch: the route goes on to its import
\* stage.
DecompressFailedGoesOn(route) == IF route = "full" THEN "r_clear" ELSE "p_start"

\* if not parser_service.decompress_xz(...): ...; return
AfterDecompressFailed(route) == "idle"

\* The route after decompress_xz returned False: the error event, return;
\* after it raised: the exception leaves the generator.  Either way the
\* temporary directory and the locals are gone.
RouteDecompressFailed(t) ==
  /\ pc[t] \in {"r_dec_failed", "r_dec_raised"}
  /\ SetLoc(t, InitLocals)
  /\ Goto(t, AfterDecompressFailed(loc[t].route))
  /\ UNCHANGED <<feed, searchVars, call, observed, dlVars, psVars, dbVars>>

----------------------------------------------------------------------------
(* The routes' storage steps *)

\* The clearing step left out: the rows stay.
DeleteNoRows(rows) == rows

\* db.query(MediaEntry).delete()
DeleteAllRows(rows) == {}

\* download_filmlist: db.query(MediaEntry).delete(); db.commit()
RouteClear(t) ==
  /\ pc[t] = "r_clear"
  /\ dbWork' = DeleteAllRows(dbWork)
  /\ dbDurable' = DeleteAllRows(dbWork)
  /\ Goto(t, "p_start")
  /\ UNCHANGED <<feed, searchVars, call, observed, loc, dlVars, psVars>>

\* A storage operation (the delete, a statement of a batch, a commit) raises;
\* the exception leaves parse_and_import, which catches only IOError and
\* JSONDecodeError.
StorageError(t) ==
  /\ pc[t] \in {"r_clear", "p_exec", "p_commit"}
  /\ Goto(t, "r_raise")
  /\ UNCHANGED <<feed, searchVars, call, observed, loc, dlVars, psVars, dbVars>>

\* No rollback: the transaction keeps its uncommitted statements.
NoRollback(work, durable) == work

\* The transaction of the shared connection is rolled back.
Rollback(work, durable) == durable

\* except Exception: db.rollback(), the error event
RouteExcept(t) ==
  /\ pc[t] = "r_raise"
  /\ dbWork' = Rollback(dbWork, dbDurable)
  /\ Goto(t, "r_finally")
  /\ UNCHANGED <<feed, searchVars, call, observed, loc, dlVars, psVars, dbDurable>>

\* finally: db.close() releases the connection, which resets it; the
\* generator ends, the temporary directory and the locals are gone.
RouteFinally(t) ==
  /\ pc[t] \in {"r_parse_ret", "r_finally"}
  /\ dbWork' = Rollback(dbWork, dbDurable)
  /\ SetLoc(t, InitLocals)
  /\ Goto(t, "idle")
  /\ UNCHANGED <<feed, searchVars, call, observed, dlVars, psVars, dbDurable>>

----------------------------------------------------------------------------
(* ParserService.parse_and_import *)

IsDiff(t) == loc[t].route = "diff"

\* The status reset and the reset of should_cancel.
ParseStart(t) ==
  /\ pc[t] = "p_start"
  /\ parser_status' = ParserStatus("parsing", 0, 0, Msg("Parsing entries...", 0))
  /\ parser_should_cancel' = FALSE
  /\ SetLoc(t, [loc[t] EXCEPT !.base = dbDurable])
  /\ Goto(t, "p_read")
  /\ UNCHANGED <<feed, searchVars, call, observed, dlVars, dbVars>>

\* The read of the file, the initial locals and the scan for the arrays.
ParseRead(t) ==
  /\ pc[t] = "p_read"
  /\ SetLoc(t, [loc[t] EXCEPT !.content = loc[t].json, !.idx = 1, !.entries = <<>>,
                              !.ctx = EmptyContext, !.total_imported = 0])
  /\ Goto(t, "p_loop")
  /\ UNCHANGED <<feed, searchVars, call, observed, dlVars, psVars, dbVars>>

\* The open or the read raises IOError: status error, return 0.
ParseIOError(t) ==
  /\ pc[t] = "p_read"
  /\ parser_status' = ParserStatus("error", 0, 0, Msg("Parse error", 0))
  /\ SetLoc(t, [loc[t] EXCEPT !.result = 0])
  /\ Goto(t, "r_parse_ret")
  /\ UNCHANGED <<feed, searchVars, call, observed, dlVars, parser_should_cancel, dbVars>>

\* The test with > for >=.
BatchOverfull(entries) == Len(entries) > PARSER_BATCH_SIZE

\* if len(entries) >= PARSER_BATCH_SIZE
BatchFull(entries) == Len(entries) >= PARSER_BATCH_SIZE

\* After the loop: if entries: _insert_batch(...), else straight to the
\* final status.
AfterLoop(l) ==
  IF l.entries # <<>>
  THEN [l EXCEPT !.k = 1, !.resume = "tail", !.flushed = Append(@, l.entries)]
  ELSE l

\* An empty buffer sends the run back to the head of the loop.
AfterLoopPcAgain(l) == IF l.entries # <<>> THEN "p_exec" ELSE "p_loop"

AfterLoopPc(l) == IF l.entries # <<>> THEN "p_exec" ELSE "p_complete"

\* The test gone from the loop: the flag is never seen.
LoopNeverCancelled(flag) == FALSE

\* if self.should_cancel: break
LoopCancelled(flag) == flag

\* One iteration of the loop over the matches: the should_cancel test
\* (break), else the record is resolved, mapped and appended, and a full
\* buffer is handed to _insert_batch.
ParseRecord(t) ==
  /\ pc[t] = "p_loop"
  /\ loc[t].idx <= Len(loc[t].content)
  /\ IF LoopCancelled(parser_should_cancel)
     THEN /\ SetLoc(t, AfterLoop([loc[t] EXCEPT !.broke = TRUE]))
          /\ Goto(t, AfterLoopPc(loc[t]))
     ELSE LET r == ProcessRecord(loc[t].content[loc[t].idx], loc[t].ctx)
              entries == loc[t].entries \o r.out
              l == [loc[t] EXCEPT !.idx = @ + 1, !.ctx = r.ctx, !.entries = entries]
          IN
          IF r.out # <<>> /\ BatchFull(entries)
          THEN /\ SetLoc(t, [l EXCEPT !.k = 1, !.resume = "loop",
                                      !.flushed = Append(@, entries)])
               /\ Goto(t, "p_exec")
          ELSE /\ SetLoc(t, l)
               /\ UNCHANGED pc
  /\ UNCHANGED <<feed, searchVars, call, observed, dlVars, psVars, dbVars>>

\* The matches are exhausted.
ParseLoopEnd(t) ==
  /\ pc[t] = "p_loop"
  /\ loc[t].idx > Len(loc[t].content)
  /\ SetLoc(t, AfterLoop(loc[t]))
  /\ Goto(t, AfterLoopPc(loc[t]))
  /\ UNCHANGED <<feed, searchVars, call, observed, dlVars, psVars, dbVars>>

\* _insert_batch: db_session.execute(stmt) for the next entry of the batch.
InsertBatchExecute(t) ==
  /\ pc[t] = "p_exec"
  /\ dbWork' = ExecuteInsert(dbWork, loc[t].entries[loc[t].k], IsDiff(t))
  /\ SetLoc(t, [loc[t] EXCEPT !.k = @ + 1])
  /\ Goto(t, IF loc[t].k = Len(loc[t].entries) THEN "p_commit" ELSE "p_exec")
  /\ UNCHANGED <<feed, searchVars, call, observed, dlVars, psVars, dbDurable>>

\* _insert_batch: db_session.commit(); then the caller's bookkeeping: inside
\* the loop the count, the cleared buffer and the first statement of the
\* status update, self.status["entries_parsed"] = total_imported; after the
\* loop the count alone.
InsertBatchCommit(t) ==
  /\ pc[t] = "p_commit"
  /\ dbDurable' = dbWork
  /\ LET total == loc[t].total_imported + Len(loc[t].entries) IN
     IF loc[t].resume = "loop"
     THEN /\ SetLoc(t, [loc[t] EXCEPT !.total_imported = total, !.entries = <<>>,
                                      !.committed = @ + 1])
          /\ parser_status' = [parser_status EXCEPT !.entries_parsed = total]
          /\ Goto(t, "p_status")
     ELSE /\ SetLoc(t, [loc[t] EXCEPT !.total_imported = total, !.committed = @ + 1])
          /\ UNCHANGED parser_status
          /\ Goto(t, "p_complete")
  /\ UNCHANGED <<feed, searchVars, call, observed, dlVars, parser_should_cancel, dbWork>>

\* The callback handed the size of a batch.
CallbackBatchSize(total_imported) == PARSER_BATCH_SIZE

\* progress_callback(total_imported)
CallbackCount(total_imported) == total_imported

\* The second statement of the status update, self.status["message"], and
\* the progress callback (the diff route passes none).
ParseBatchMessage(t) ==
  /\ pc[t] = "p_status"
  /\ parser_status' =
       [parser_status EXCEPT !.message = Msg("Imported entries...", loc[t].total_imported)]
  /\ SetLoc(t, IF loc[t].route = "full"
               THEN [loc[t] EXCEPT !.callbacks = Append(@, CallbackCount(loc[t].total_imported))]
               ELSE loc[t])
  /\ Goto(t, "p_loop")
  /\ UNCHANGED <<feed, searchVars, call, observed, dlVars, parser_should_cancel, dbVars>>

\* The final status and return total_imported.
ParseComplete(t) ==
  /\ pc[t] = "p_complete"
  /\ parser_status' =
       ParserStatus("complete", 100, loc[t].total_imported,
                    Msg("Import complete", loc[t].total_imported))
  /\ SetLoc(t, [loc[t] EXCEPT !.result = loc[t].total_imported])
  /\ Goto(t, "r_parse_ret")
  /\ UNCHANGED <<feed, searchVars, call, observed, dlVars, parser_should_cancel, dbVars>>

----------------------------------------------------------------------------
(* Requests on the entries table *)

\* The request bodies of POST /api/entries: one entry without an id, of a
\* title the feeds contain ("x") or of one they do not ("z").
Posts == {EntryData(FullRecord(A, T, <<title>>, "3"), A, T) : title \in {"x", "z"}}

\* POST /api/entries: merge() of an entry without id adds a row; the commit
\* raises on a row of the same (channel, theme, title) and the route rolls
\* back.
BulkInsertEntries(t) ==
  /\ pc[t] = "idle"
  /\ \E e \in Posts :
       IF \E r \in dbWork : KeyOf(r) = KeyOf(e)
       THEN /\ dbWork' = Rollback(dbWork, dbDurable)
            /\ dbDurable' = dbDurable
       ELSE /\ dbWork' = dbWork \cup {e}
            /\ dbDurable' = dbWork \cup {e}
  /\ UNCHANGED <<feed, searchVars, call, observed, pc, loc, dlVars, psVars>>

\* GET /api/entries/recent?minTimestamp=m with a limit no smaller than the
\* table: the rows of timestamp >= m, as the response lists them.
GetRecentEntries(t) ==
  /\ pc[t] = "idle"
  /\ \E min_timestamp \in {0, 2} :
       observed' = [service |-> "entries",
                    status |-> {r \in dbWork : r.timestamp >= min_timestamp}]
  /\ UNCHANGED <<feed, searchVars, call, pc, loc, dlVars, psVars, dbVars>>

----------------------------------------------------------------------------
(* utils/url_utils.py *)

\* The index of the first "|" of a string that has one.
PipeIndex(s) == CHOOSE i \in 1..Len(s) : s[i] = "|" /\ \A j \in 1..(i - 1) : s[j] # "|"

\* What a call hands back: a value, or the exception that left it.
Return(value) == [raised |-> "", value |-> value]

\* The except clause missing: the ValueError of int() leaves the function.
ValueErrorEscapes(relative_url) == [raised |-> "ValueError", value |-> Empty]

\* except (ValueError, IndexError): return relative_url
OnValueError(relative_url) == Return(relative_url)

reconstruct_url(base_url, relative_url) ==
  IF relative_url = Empty \/ \A i \in 1..Len(relative_url) : relative_url[i] # "|"
  THEN Return(relative_url)
  ELSE LET k      == PipeIndex(relative_url)
           part0  == SubSeq(relative_url, 1, k - 1)
           suffix == SubSeq(relative_url, k + 1, Len(relative_url))
       IN IF ~IntParses(part0) THEN OnValueError(relative_url)
          ELSE LET offset == IntValue(part0) IN
               IF offset > 0 /\ offset <= Len(base_url)
               THEN Return(SubSeq(base_url, 1, offset) \o suffix)
               ELSE Return(relative_url)

\* The example of reconstruct_url's docstring.
ExampleUrl ==
  <<"h", "t", "t", "p", "s", ":", "/", "/", "e", "x", "a", "m", "p",
    "l", "e", ".", "c", "o", "m", "/", "v", "i", "d", "e", "o", "/",
    "s", "t", "r", "e", "a", "m", ".", "m", "p", "4">>

ExampleRelative ==
  <<"2", "3", "|", "h", "d", "_", "s", "t", "r", "e", "a", "m", ".",
    "m", "p", "4">>

ExampleResult ==
  <<"h", "t", "t", "p", "s", ":", "/", "/", "e", "x", "a", "m", "p",
    "l", "e", ".", "c", "o", "m", "/", "v", "i", "d", "e", "o", "/",
    "h", "d", "_", "s", "t", "r", "e", "a", "m", ".", "m", "p", "4">>

\* Base urls: none, short ones, the example's.
Urls == {Empty, <<"a", "b">>, <<"a", "b", "c", "d">>, ExampleUrl}

\* The texts before the first "|": numerals small and large, zero, signed,
\* padded, grouped, not numerals, nothing.
OffsetTexts ==
  { <<"1">>, <<"2">>, <<"4">>, <<"5">>, <<"2", "3">>, <<"3", "7">>, <<"0">>,
    <<"0", "2">>, <<"-", "1">>, <<"+", "2">>, <<" ", "2">>, <<"1", "_", "0">>,
    <<"x">>, <<"2", "x">>, <<"1", ".", "5">>, <<"_", "1">>, Empty }

Suffixes == {Empty, <<"s">>, <<"s", "|", "t">>}

\* Relative references: offset|suffix forms, texts without "|", nothing,
\* the example's.
Relatives ==
  {o \o <<"|">> \o x : o \in OffsetTexts, x \in Suffixes}
    \cup {Empty, <<"s">>, <<"2", "3">>, ExampleRelative}

ReconstructUrlCall ==
  /\ call = NoCall
  /\ \E base_url \in Urls, relative_url \in Relatives :
       call' = [fn     |-> "reconstruct_url",
                input  |-> <<>>,
                args   |-> <<base_url, relative_url>>,
                result |-> reconstruct_url(base_url, relative_url)]
  /\ UNCHANGED <<feed, searchVars, pc, loc, dlVars, psVars, dbVars, observed>>

----------------------------------------------------------------------------
(* ParserService._parse_array_values *)

\* str.replace(old, new) for an old of two characters a, b and a new of one:
\* the occurrences are found left to right and do not overlap.
RECURSIVE Replace(_, _, _, _)
Replace(s, a, b, new) ==
  IF Len(s) < 2 THEN s
  ELSE IF s[1] = a /\ s[2] = b
       THEN <<new>> \o Replace(SubSeq(s, 3, Len(s)), a, b, new)
       ELSE <<s[1]>> \o Replace(Tail(s), a, b, new)

\* The unescaping left out: the token is the text between the quotes.
UnescapeNothing(value) == value

\* value.replace('\\"', '"').replace('\\\\', '\\')
Unescape(value) == Replace(Replace(value, "\\", "\"", "\""), "\\", "\\", "\\")

\* while i < arr_len and arr_content[i] in ' \t\n\r,': i += 1
RECURSIVE SkipSeparators(_, _)
SkipSeparators(s, i) ==
  IF i <= Len(s) /\ s[i] \in {" ", "\t", "\n", "\r", ","}
  THEN SkipSeparators(s, i + 1) ELSE i

\* The index at which the scan of a quoted token stops: the first quote not
\* taken as the second character of a backslash pair, or the end.
RECURSIVE TokenEnd(_, _)
TokenEnd(s, i) ==
  IF i > Len(s) THEN i
  ELSE IF s[i] = "\\" /\ i + 1 <= Len(s) THEN TokenEnd(s, i + 2)
  ELSE IF s[i] = "\"" THEN i
  ELSE TokenEnd(s, i + 1)

\* while i < arr_len and arr_content[i] not in ',]': i += 1
RECURSIVE LiteralEnd(_, _)
LiteralEnd(s, i) ==
  IF i <= Len(s) /\ s[i] \notin {",", "]"} THEN LiteralEnd(s, i + 1) ELSE i

\* The unquoted element passed over without a token.
OnUnquotedSkip(values) == values

\* values.append("") for an element that does not start with a quote
OnUnquoted(values) == Append(values, Empty)

\* The loop of _parse_array_values from index i on (indices from 1).  The
\* argument is the text the regex matched before the first "]", so it holds
\* no "]".
RECURSIVE ScanValues(_, _, _)
ScanValues(s, i, values) ==
  LET j == SkipSeparators(s, i) IN
  IF j > Len(s) THEN values
  ELSE IF s[j] = "\""
       THEN LET e == TokenEnd(s, j + 1) IN
            ScanValues(s, e + 1, Append(values, Unescape(SubSeq(s, j + 1, e - 1))))
       ELSE ScanValues(s, LiteralEnd(s, j), OnUnquoted(values))

_parse_array_values(arr_content) == ScanValues(arr_content, 1, <<>>)

\* Longest token value of the arrays scanned.
MaxLiteralLen == 3

\* Token values: every string of a letter, quotes and backslashes.
Literals == SeqsUpTo({"a", "\"", "\\"}, MaxLiteralLen)

\* The texts of elements written without quotes: numbers, true, null.
UnquotedTexts ==
  {<<"1", "2">>, <<"-", "1", ".", "5">>, <<"t", "r", "u", "e">>, <<"n", "u", "l", "l">>}

\* An array element of the file: a string or an unquoted literal.
Elements ==
  [quoted : {TRUE}, text : Literals] \cup [quoted : {FALSE}, text : UnquotedTexts]

\* A string as the file holds it: between quotes, every quote and backslash
\* behind a backslash.
RECURSIVE JsonEscape(_)
JsonEscape(text) ==
  IF text = <<>> THEN <<>>
  ELSE (IF Head(text) \in {"\"", "\\"} THEN <<"\\", Head(text)>> ELSE <<Head(text)>>)
         \o JsonEscape(Tail(text))

JsonElement(e) ==
  IF e.quoted THEN <<"\"">> \o JsonEscape(e.text) \o <<"\"">> ELSE e.text

\* The text between the brackets of an array: its elements, a separator
\* between two.
RECURSIVE JsonArray(_, _)
JsonArray(elements, sep) ==
  IF elements = <<>> THEN <<>>
  ELSE IF Len(elements) = 1 THEN JsonElement(elements[1])
  ELSE JsonElement(elements[1]) \o sep \o JsonArray(Tail(elements), sep)

\* A complete record as array elements, its timestamp (index 16) and isNew
\* (index 19) elements written as strings or as unquoted literals.
LongArrays ==
  {[i \in 1..20 |->
      IF i = 17 /\ ~q16 THEN [quoted |-> FALSE, text |-> <<"1", "2">>]
      ELSE IF i = 20 /\ ~q19 THEN [quoted |-> FALSE, text |-> <<"t", "r", "u", "e">>]
      ELSE [quoted |-> TRUE, text |-> FullRecord(A, T, <<"x">>, "1")[i]]]
   : q16 \in BOOLEAN, q19 \in BOOLEAN}

\* The arrays scanned: one or two elements of any kind, and the long ones.
Arrays == (SeqsUpTo(Elements, 2) \ {<<>>}) \cup LongArrays

\* A record as the file holds it: the key "X", a colon, the array in
\* brackets.
RecordText(elements) ==
  <<"\"", "X", "\"", ":", "[">> \o JsonArray(elements, <<",">>) \o <<"]">>

\* match.group(1) of the pattern "X"\s*:\s*\[(.*?)\] on a text that starts
\* with the key: the lazy group ends before the first "]" behind the "[".
MatchGroup(content) ==
  LET close == CHOOSE k \in 6..Len(content) :
                 content[k] = "]" /\ \A j \in 6..(k - 1) : content[j] # "]"
  IN SubSeq(content, 6, close - 1)

\* Token values with and without a "]".
BracketLiterals == SeqsUpTo({"a", "]"}, 2)

\* Records of one to three string tokens.
BracketArrays ==
  SeqsUpTo([quoted : {TRUE}, text : BracketLiterals], 3) \ {<<>>}

\* One pass of the loop over the matches up to the token list: the group of
\* the match, scanned.
ScanRecordCall ==
  /\ call = NoCall
  /\ \E elements \in BracketArrays :
       LET content == RecordText(elements) IN
       call' = [fn     |-> "match.group(1)",
                input  |-> elements,
                args   |-> <<content>>,
                result |-> _parse_array_values(MatchGroup(content))]
  /\ UNCHANGED <<feed, searchVars, pc, loc, dlVars, psVars, dbVars, observed>>

ParseArrayValuesCall ==
  /\ call = NoCall
  /\ \E elements \in Arrays, sep \in {<<",">>, <<",", " ">>} :
       LET arr_content == JsonArray(elements, sep) IN
       call' = [fn     |-> "_parse_array_values",
                input  |-> elements,
                args   |-> <<arr_content>>,
                result |-> _parse_array_values(arr_content)]
  /\ UNCHANGED <<feed, searchVars, pc, loc, dlVars, psVars, dbVars, observed>>

----------------------------------------------------------------------------
(* SearchService *)

\* Cache entries kept (50 in config.py).
SEARCH_CACHE_MAX_SIZE == 1

\* Seconds a cache entry is served (300 in config.py).
SEARCH_CACHE_TTL == 1

\* Largest page.
MAX_LIMIT == 10000

\* Last reading of the clock.
MaxTime == 1

\* An argument the request did not give.
None == <<>>
Some(v) == <<v>>

\* str() of an optional string and of a number, as the f-string writes them.
OptStr(v) == IF v = None THEN <<"N", "o", "n", "e">> ELSE v[1]

RECURSIVE IntStr(_)
IntStr(n) ==
  LET digit(d) == CHOOSE c \in {"0", "1", "2", "3", "4", "5", "6", "7", "8", "9"} :
                    DigitVal(c) = d
  IN IF n < 10 THEN <<digit(n)>> ELSE IntStr(n \div 10) \o <<digit(n % 10)>>

\* f"{query}|{channel}|{theme}|{limit}|{offset}"
CacheKey(query, channel, theme, limit, offset) ==
  query \o <<"|">> \o OptStr(channel) \o <<"|">> \o OptStr(theme) \o <<"|">>
    \o IntStr(limit) \o <<"|">> \o IntStr(offset)

\* str.split(): the maximal runs of characters that are not whitespace.
RECURSIVE Split(_, _)
Split(s, word) ==
  IF s = <<>> THEN (IF word = <<>> THEN <<>> ELSE <<word>>)
  ELSE IF IsSpace(Head(s))
       THEN (IF word = <<>> THEN <<>> ELSE <<word>>) \o Split(Tail(s), <<>>)
       ELSE Split(Tail(s), Append(word, Head(s)))

\* column ILIKE '%word%' for a word without pattern characters.
ILike(text, word) ==
  \E i \in 0..(Len(text) - Len(word)) :
    Lower(SubSeq(text, i + 1, i + Len(word))) = Lower(word)

\* The rows the filters of search() leave.
Matching(rows, words, channel, theme) ==
  {r \in rows :
     /\ (channel # None /\ channel[1] # Empty) => r.channel = channel[1]
     /\ (theme # None /\ theme[1] # Empty) => r.theme = theme[1]
     /\ \A i \in 1..Len(words) :
          \/ ILike(r.title, words[i])
          \/ ILike(r.description, words[i])
          \/ ILike(r.theme, words[i])}

\* ORDER BY timestamp DESC: the orders of the rows that respect it (rows of
\* one timestamp come in an order the query does not fix).
Ordered(rows) ==
  {q \in [1..Cardinality(rows) -> rows] :
     /\ \A i, j \in 1..Cardinality(rows) : i < j =>
          (q[i] # q[j] /\ q[i].timestamp >= q[j].timestamp)}

Min(a, b) == IF a <= b THEN a ELSE b

\* .offset(offset).limit(limit)
Page(q, limit, offset) == SubSeq(q, offset + 1, Min(Len(q), offset + limit))

\* The arguments of the search requests: query, channel, theme, limit,
\* offset. The first finds both posted entries by their theme and asks for
\* one; the second is a query of whitespace; the last finds one entry by two
\* words within a channel and a theme and skips it.
SearchRequests ==
  { <<<<"t">>, None, None, 1, 0>>,
    <<<<" ">>, None, None, 1, 0>>,
    <<<<"z", " ", "T">>, Some(A), Some(T), 2, 1>> }

\* search() up to the call of _update_cache: a fresh cache entry is
\* returned with the length of its results as the total; else the query is
\* run, the total counted and the page fetched.
SearchLookup(t) ==
  /\ srch[t].at = "idle"
  /\ \E req \in SearchRequests :
       LET query     == req[1]
           channel   == req[2]
           theme     == req[3]
           limit     == req[4]
           offset    == req[5]
           cache_key == CacheKey(query, channel, theme, limit, offset)
           words     == Split(Lower(query), <<>>)
           matching  == Matching(dbWork, words, channel, theme)
       IN
       IF cache_key \in DOMAIN cache /\ now - cache[cache_key].time < SEARCH_CACHE_TTL
       THEN /\ srch' = [srch EXCEPT ![t] =
                          [NoSearch EXCEPT !.at = "done", !.key = cache_key, !.hit = TRUE,
                                           !.results = cache[cache_key].results,
                                           !.total = Len(cache[cache_key].results)]]
            /\ UNCHANGED returned
       ELSE IF words = <<>>
       THEN /\ srch' = [srch EXCEPT ![t] = [NoSearch EXCEPT !.at = "done", !.key = cache_key]]
            /\ UNCHANGED returned
       ELSE \E q \in Ordered(matching) :
              LET result_dicts == Page(q, Min(limit, MAX_LIMIT), offset)
                  total == Cardinality(matching)
              IN
              /\ srch' = [srch EXCEPT ![t] =
                            [NoSearch EXCEPT !.at = "update", !.key = cache_key,
                                             !.results = result_dicts, !.total = total]]
              /\ returned' = [key |-> cache_key, results |-> result_dicts,
                               total |-> total, rows |-> dbWork]
  /\ UNCHANGED <<feed, pc, loc, dlVars, psVars, dbVars, observed, call, cache, now>>

\* if len(self._cache) >= SEARCH_CACHE_MAX_SIZE
CacheFull(size) == size >= SEARCH_CACHE_MAX_SIZE

\* _update_cache: the test of the size.
UpdateTest(t) ==
  /\ srch[t].at = "update"
  /\ srch' = [srch EXCEPT ![t].at = IF CacheFull(Cardinality(DOMAIN cache))
                                    THEN "min" ELSE "store"]
  /\ UNCHANGED <<feed, pc, loc, dlVars, psVars, dbVars, observed, call, cache, now, returned>>

\* _update_cache: oldest_key = min(keys, key=cached time), taken in one
\* step; min() of no key raises ValueError; of keys of one time any may be
\* the first.
UpdateMin(t) ==
  /\ srch[t].at = "min"
  /\ IF DOMAIN cache = {}
     THEN srch' = [srch EXCEPT ![t].at = "done", ![t].raised = "ValueError"]
     ELSE \E k \in DOMAIN cache :
            /\ \A k2 \in DOMAIN cache : cache[k].time <= cache[k2].time
            /\ srch' = [srch EXCEPT ![t].at = "del", ![t].oldest_key = k]
  /\ UNCHANGED <<feed, pc, loc, dlVars, psVars, dbVars, observed, call, cache, now, returned>>

\* _update_cache: del self._cache[oldest_key]; KeyError when the key is gone.
UpdateDel(t) ==
  /\ srch[t].at = "del"
  /\ IF srch[t].oldest_key \in DOMAIN cache
     THEN /\ cache' = [k \in DOMAIN cache \ {srch[t].oldest_key} |-> cache[k]]
          /\ srch' = [srch EXCEPT ![t].at = "store"]
     ELSE /\ srch' = [srch EXCEPT ![t].at = "done", ![t].raised = "KeyError"]
          /\ UNCHANGED cache
  /\ UNCHANGED <<feed, pc, loc, dlVars, psVars, dbVars, observed, call, now, returned>>

\* _update_cache: self._cache[key] = (results, time.time()); then search()
\* returns result_dicts, total.
UpdateStore(t) ==
  /\ srch[t].at = "store"
  /\ cache' = [k \in DOMAIN cache \cup {srch[t].key} |->
                 IF k = srch[t].key THEN [results |-> srch[t].results, time |-> now]
                 ELSE cache[k]]
  /\ srch' = [srch EXCEPT ![t].at = "done"]
  /\ UNCHANGED <<feed, pc, loc, dlVars, psVars, dbVars, observed, call, now, returned>>

\* The route answers (or the exception leaves it); db.close().
SearchReturn(t) ==
  /\ srch[t].at = "done"
  /\ srch' = [srch EXCEPT ![t] = NoSearch]
  /\ UNCHANGED <<feed, pc, loc, dlVars, psVars, dbVars, observed, call, cache, now, returned>>

\* A second passes.
Tick ==
  /\ now < MaxTime
  /\ now' = now + 1
  /\ UNCHANGED <<feed, pc, loc, dlVars, psVars, dbVars, observed, call, cache, srch, returned>>

SearchStep(t) ==
  \/ SearchLookup(t)
  \/ UpdateTest(t)
  \/ UpdateMin(t)
  \/ UpdateDel(t)
  \/ UpdateStore(t)
  \/ SearchReturn(t)

----------------------------------------------------------------------------
(* Specifications *)

\* The steps of a request on a feed that fills no batch inside the loop.
ShortFeedStep(t) ==
  \/ RouteStart(t)
  \/ DeleteAllEntries(t)
  \/ DownloadGuard(t)
  \/ DownloadHead(t)
  \/ DownloadChunk(t)
  \/ DownloadChunkDownloaded(t)
  \/ DownloadComplete(t)
  \/ DownloadError(t)
  \/ DownloadUnexpected(t)
  \/ DownloadFinally(t)
  \/ RouteDownloadFailed(t)
  \/ DecompressStart(t)
  \/ DecompressChunk(t)
  \/ DecompressComplete(t)
  \/ DecompressReturn(t)
  \/ DecompressError(t)
  \/ DecompressEOFError(t)
  \/ RouteDecompressFailed(t)
  \/ RouteClear(t)
  \/ StorageError(t)
  \/ RouteExcept(t)
  \/ RouteFinally(t)
  \/ ParseStart(t)
  \/ ParseRead(t)
  \/ ParseIOError(t)
  \/ ParseRecord(t)
  \/ ParseLoopEnd(t)
  \/ InsertBatchExecute(t)
  \/ InsertBatchCommit(t)
  \/ ParseComplete(t)

Step(t) == ShortFeedStep(t) \/ ParseBatchMessage(t)

\* Pipeline requests served one after the other, cancel requests at any time.
Next == Step(1) \/ Cancel

Spec == Init /\ [][Next]_vars

\* Requests served by two threads at once, on feeds of one complete record
\* (one that is mapped, one that is dropped for its empty channel); one
\* record never fills a batch, so the step that follows a flush inside the
\* loop does not occur.
InitConc == Init /\ Len(feed) = 1 /\ Len(feed[1]) = 20

NextConc == (\E t \in Threads : ShortFeedStep(t)) \/ Cancel

SpecConc == InitConc /\ [][NextConc]_vars

\* The steps of a request that meets no failure.
CleanStep(t) ==
  \/ RouteStart(t)
  \/ DownloadGuard(t)
  \/ DownloadHead(t)
  \/ DownloadChunk(t)
  \/ DownloadChunkDownloaded(t)
  \/ DownloadComplete(t)
  \/ DownloadFinally(t)
  \/ DecompressStart(t)
  \/ DecompressChunk(t)
  \/ DecompressComplete(t)
  \/ DecompressReturn(t)
  \/ RouteClear(t)
  \/ ParseStart(t)
  \/ ParseRead(t)
  \/ ParseRecord(t)
  \/ ParseLoopEnd(t)
  \/ InsertBatchExecute(t)
  \/ InsertBatchCommit(t)
  \/ ParseBatchMessage(t)
  \/ ParseComplete(t)
  \/ RouteFinally(t)

\* Pipeline requests served one after the other without failures, on feeds
\* of short records.
InitTokens == feed \in TokenFeeds /\ Started

NextTokens == CleanStep(1)

SpecTokens == InitTokens /\ [][NextTokens]_vars

\* The same requests served by two threads at once, on feeds of two records;
\* a start attempt made during the other thread's download is rejected.
InitTokensConc == InitTokens /\ Len(feed) = 2

NextTokensConc == \E t \in Threads : CleanStep(t) \/ RouteDownloadFailed(t)

SpecTokensConc == InitTokensConc /\ [][NextTokensConc]_vars

\* One pipeline request at a time while other requests read the status, on
\* feeds that fill one batch.
InitStatus == Init /\ Len(feed) = PARSER_BATCH_SIZE

NextStatus == Step(1) \/ DownloadServiceGetStatus \/ ParserServiceGetStatus

SpecStatus == InitStatus /\ [][NextStatus]_vars

\* Pipeline requests served one after the other without failures, between
\* them requests that post an entry or list the table.
InitStore == Init /\ Len(feed) = PARSER_BATCH_SIZE

NextStore == CleanStep(1) \/ BulkInsertEntries(1) \/ GetRecentEntries(1)

SpecStore == InitStore /\ [][NextStore]_vars

\* Pipeline requests served one after the other without failures, on feeds
\* whose first record varies in length and in its isNew and timestamp
\* tokens.
InitFields == feed \in FieldFeeds /\ Started

NextFields == CleanStep(1)

SpecFields == InitFields /\ [][NextFields]_vars

\* One pipeline request at a time with cancel requests and failures, on
\* feeds of more than two batches.
InitProgress == feed \in ProgressFeeds /\ Started

NextProgress == Step(1) \/ Cancel

SpecProgress == InitProgress /\ [][NextProgress]_vars

\* The steps of a request whose storage operations and file reads return:
\* the failure-free steps and the route's ends after a cancelled download
\* or decompression.
LiveStep(t) == CleanStep(t) \/ RouteDownloadFailed(t) \/ RouteDecompressFailed(t)

\* One pipeline request at a time with cancel requests at any moment; the
\* request thread is scheduled again and again, so a step it can take is
\* taken.
InitLive == Init /\ Len(feed) = PARSER_BATCH_SIZE

NextLive == LiveStep(1) \/ Cancel

SpecLive == InitLive /\ [][NextLive]_vars /\ WF_vars(LiveStep(1))

\* Search requests served by two threads at once while entries are posted
\* and time passes.
InitSearch == Init /\ Len(feed) = 1 /\ Len(feed[1]) = 20 /\ feed[1][1] = A

NextSearch == (\E t \in Threads : SearchStep(t)) \/ BulkInsertEntries(1) \/ Tick

SpecSearch == InitSearch /\ [][NextSearch]_vars

\* Calls of the helper functions, one per behaviour, while no request is
\* being served.
InitHelpers == feed \in {f \in Feeds : Len(f) = 1} /\ Started

NextHelpers == ReconstructUrlCall \/ ParseArrayValuesCall \/ ScanRecordCall

SpecHelpers == InitHelpers /\ [][NextHelpers]_vars

----------------------------------------------------------------------------
(* What a run is expected to do, computed from the feed *)

RECURSIVE Flatten(_)
Flatten(batches) ==
  IF batches = <<>> THEN <<>> ELSE Head(batches) \o Flatten(Tail(batches))

\* The entries the loop maps from a sequence of records, in document order.
RECURSIVE MapRecords(_, _)
MapRecords(records, ctx) ==
  IF records = <<>> THEN <<>>
  ELSE LET r == ProcessRecord(Head(records), ctx) IN
       r.out \o MapRecords(Tail(records), r.ctx)

\* The records a run has consumed: those before the loop's position.
Consumed(t) == SubSeq(feed, 1, loc[t].idx - 1)

\* The store after whole batches have been applied to it.
RECURSIVE ApplyEntries(_, _, _)
ApplyEntries(rows, entries, is_diff) ==
  IF entries = <<>> THEN rows
  ELSE ApplyEntries(ExecuteInsert(rows, Head(entries), is_diff), Tail(entries), is_diff)

\* parse_and_import has returned to the route / has run to its last line.
Returned(t) == pc[t] = "r_parse_ret"
Completed(t) == Returned(t) /\ parser_status.state = "complete"

UniqueKeys(rows) == \A r1, r2 \in rows : KeyOf(r1) = KeyOf(r2) => r1 = r2

----------------------------------------------------------------------------
(* Claims *)

\* C1: after any sequence of full-import runs, diff-import runs and clears,
\* no two stored rows have the same (channel, theme, title) triple; this
\* holds of the committed rows and of the rows of the open transaction.
C1_UniqueKey == UniqueKeys(dbDurable) /\ UniqueKeys(dbWork)

\* A run has returned after flushing two different entries with one key, and
\* the store holds a row with that key.
C1_Witness ==
  \E t \in Threads :
    /\ Returned(t)
    /\ LET F == Flatten(loc[t].flushed) IN
       \E i, j \in 1..Len(F) :
         /\ i < j /\ KeyOf(F[i]) = KeyOf(F[j]) /\ F[i] # F[j]
         /\ \E r \in dbDurable : KeyOf(r) = KeyOf(F[i])

C3_LastWins ==
  \A t \in Threads :
    (Completed(t) /\ loc[t].route = "diff") =>
      LET P == MapRecords(Consumed(t), EmptyContext) IN
      \A i \in 1..Len(P) :
        (\A j \in (i + 1)..Len(P) : KeyOf(P[j]) # KeyOf(P[i])) =>
          \E r \in dbDurable :
            /\ KeyOf(r) = KeyOf(P[i])
            /\ r.date = P[i].date /\ r.time = P[i].time
            /\ r.duration = P[i].duration /\ r.sizeMB = P[i].sizeMB
            /\ r.description = P[i].description /\ r.url = P[i].url
            /\ r.website = P[i].website /\ r.subtitleUrl = P[i].subtitleUrl
            /\ r.smallUrl = P[i].smallUrl /\ r.hdUrl = P[i].hdUrl
            /\ r.timestamp = P[i].timestamp /\ r.geo = P[i].geo
            /\ r.isNew = P[i].isNew

\* A diff import has returned whose feed holds two different records with
\* one key, the key was in the store before the run with other values than
\* the later record's, and the row now equals the later record.
C3_Witness ==
  \E t \in Threads :
    /\ Completed(t) /\ loc[t].route = "diff"
    /\ LET P == MapRecords(Consumed(t), EmptyContext) IN
       \E i, j \in 1..Len(P) :
         /\ i < j /\ KeyOf(P[i]) = KeyOf(P[j]) /\ P[i] # P[j]
         /\ \A m \in (j + 1)..Len(P) : KeyOf(P[m]) # KeyOf(P[j])
         /\ \E r0 \in loc[t].base : KeyOf(r0) = KeyOf(P[j]) /\ r0.geo # P[j].geo
         /\ P[j] \in dbDurable

\* The precondition of C4: every record has at least 3 tokens, the first has
\* a channel and a theme token, every following one has neither.
InheritingFeed(f) ==
  /\ Len(f[1]) >= 3 /\ f[1][1] # Empty /\ f[1][2] # Empty
  /\ \A i \in 2..Len(f) : Len(f[i]) >= 3 /\ f[i][1] = Empty /\ f[i][2] = Empty

\* C4: on such a feed, every record the run has consumed is mapped, in
\* order, with the first record's channel and theme (and its own title).
C4_Inheritance ==
  \A t \in Threads :
    (InheritingFeed(feed)
       /\ pc[t] \in {"p_loop", "p_exec", "p_commit", "p_status", "p_complete", "r_parse_ret"}
       /\ parser_status.state # "error") =>
      LET M == Flatten(loc[t].flushed) \o
                 (IF pc[t] = "p_loop" THEN loc[t].entries ELSE <<>>)
      IN
      /\ Len(M) = loc[t].idx - 1
      /\ \A i \in 1..Len(M) :
           /\ M[i].channel = feed[1][1]
           /\ M[i].theme = feed[1][2]
           /\ M[i].title = feed[i][3]

\* A run has consumed a first record and two inheriting followers.
C4_Witness ==
  \E t \in Threads :
    /\ Completed(t) /\ InheritingFeed(feed) /\ Len(feed) >= 3
    /\ loc[t].idx = Len(feed) + 1
    /\ Len(Flatten(loc[t].flushed)) = Len(feed)

\* A thread is inside decompress_xz or parse_and_import.
Ingesting(t) ==
  pc[t] \in {"dec_loop", "dec_done", "p_read", "p_loop", "p_exec", "p_commit", "p_status",
            "p_complete"}

\* C5: two ingestion runs on the one ParserService never execute at the same
\* time: at most one thread is inside decompress_xz or parse_and_import.
C5_NoConcurrentIngestion == Cardinality({t \in Threads : Ingesting(t)}) <= 1

\* C6: when parse_and_import has returned after it broke out of its loop on
\* the cancellation flag, the status state is cancelled.
C6_CancelledState ==
  \A t \in Threads :
    (Returned(t) /\ loc[t].broke) => parser_status.state = "cancelled"

\* C7: when an ingestion run has ended (decompress_xz returned False,
\* parse_and_import returned, or a storage exception left it), the status
\* state is one of complete, error, cancelled.
C7_TerminalState ==
  \A t \in Threads :
    (\/ pc[t] = "r_dec_failed"
     \/ Returned(t)
     \/ pc[t] = "r_raise" /\ loc[t].flushed # <<>>) =>
      parser_status.state \in {"complete", "error", "cancelled"}

\* C8: when a flush has failed (a statement or the commit raised), the
\* committed rows are exactly what the batches committed earlier in the run
\* made of the rows the run started on, and once the route has handled the
\* exception the transaction holds nothing else either.
C8_FlushAtomic ==
  \A t \in Threads :
    (pc[t] \in {"r_raise", "r_finally"} /\ loc[t].flushed # <<>>) =>
      /\ loc[t].committed = Len(loc[t].flushed) - 1
      /\ dbDurable =
           ApplyEntries(loc[t].base,
                        Flatten(SubSeq(loc[t].flushed, 1, loc[t].committed)),
                        IsDiff(t))
      /\ pc[t] = "r_finally" => dbWork = dbDurable

\* The second batch of a run failed after its statement was executed; the
\* entry it would have written is not stored, the first batch's rows are.
C8_Witness ==
  \E t \in Threads :
    /\ pc[t] = "r_finally" /\ Len(loc[t].flushed) = 2 /\ loc[t].committed = 1
    /\ loc[t].k > 1
    /\ \E e \in {loc[t].flushed[2][i] : i \in 1..Len(loc[t].flushed[2])} : e \notin dbDurable
    /\ \A i \in 1..Len(loc[t].flushed[1]) :
         \E r \in dbDurable : KeyOf(r) = KeyOf(loc[t].flushed[1][i])

\* C9: the buffer never holds more than PARSER_BATCH_SIZE entries and holds
\* fewer at the head of the loop; the entries handed to _insert_batch so far,
\* followed by the buffer, are the mapped records in document order; every
\* batch but the last is full; and a run that returns has flushed every
\* mapped record in a committed batch.
C9_Batching ==
  \A t \in Threads :
    /\ Len(loc[t].entries) <= PARSER_BATCH_SIZE
    /\ pc[t] = "p_loop" => Len(loc[t].entries) < PARSER_BATCH_SIZE
    /\ pc[t] = "p_loop" =>
         Flatten(loc[t].flushed) \o loc[t].entries = MapRecords(Consumed(t), EmptyContext)
    /\ (pc[t] \in {"p_exec", "p_commit", "p_complete"} \/ Completed(t)) =>
         Flatten(loc[t].flushed) = MapRecords(Consumed(t), EmptyContext)
    /\ \A i \in 1..Len(loc[t].flushed) :
         /\ Len(loc[t].flushed[i]) \in 1..PARSER_BATCH_SIZE
         /\ i < Len(loc[t].flushed) => Len(loc[t].flushed[i]) = PARSER_BATCH_SIZE
    /\ Completed(t) => loc[t].committed = Len(loc[t].flushed)

\* A run has returned after a full batch and a partial one at end of run.
C9_Witness ==
  \E t \in Threads :
    /\ Completed(t) /\ ~loc[t].broke
    /\ Len(loc[t].flushed) = 2
    /\ Len(loc[t].flushed[1]) = PARSER_BATCH_SIZE
    /\ Len(loc[t].flushed[2]) < PARSER_BATCH_SIZE
    /\ loc[t].committed = 2

\* C10: a download start that is rejected because a download is active
\* leaves the status of the download service as it was.
C10_RejectLeavesStatus ==
  [][\A t \in Threads :
       (pc[t] = "dl_guard" /\ is_downloading /\ pc'[t] = "r_dl_failed") =>
         download_status' = download_status]_vars

\* A thread is in _download_file past the guard, up to the finally clause.
Downloading(t) == pc[t] \in {"dl_head", "dl_loop", "dl_progress", "dl_finally"}

\* C11: at most one _download_file call is past the is_downloading guard,
\* and is_downloading is true exactly while one is: once a download has
\* ended, in whatever way, the flag is false and the next start is accepted.
C11_SingleDownload ==
  /\ Cardinality({t \in Threads : Downloading(t)}) <= 1
  /\ is_downloading <=> (\E t \in Threads : Downloading(t))

\* A start attempt was rejected while the other thread's download goes on.
C11_Witness ==
  \E t, u \in Threads :
    /\ pc[t] = "dl_loop" /\ loc[t].downloaded > 0
    /\ pc[u] = "r_dl_failed"
    /\ download_status.message = Msg("Download already in progress", 0)

\* C12: a dict returned by get_status never mixes the fields of two updates.
\* For the parser: state decompress_complete never comes with the message of
\* the decompressing state, and in state parsing the message is the one
\* written with the entries_parsed value.  For the downloader: progress is
\* the percentage of the downloaded value returned with it.
C12_NoTornStatus ==
  /\ observed.service = "parser" =>
       /\ observed.status.state = "decompress_complete" =>
            observed.status.message # Msg("Decompressing file...", 0)
       /\ observed.status.state = "parsing" =>
            \/ /\ observed.status.entries_parsed = 0
               /\ observed.status.message = Msg("Parsing entries...", 0)
            \/ observed.status.message =
                 Msg("Imported entries...", observed.status.entries_parsed)
  /\ (observed.service = "download" /\ observed.status.state = "downloading"
        /\ observed.status.total > 0) =>
       observed.status.progress =
         (observed.status.downloaded * 100) \div observed.status.total

ParserStates ==
  {"idle", "decompressing", "decompress_complete", "parsing", "complete", "error",
   "cancelled"}

\* The edges of the parser's state machine as the specification draws them.
AllowedEdge(a, b) ==
  \/ a \in {"idle", "complete", "error", "cancelled"} /\ b = "decompressing"
  \/ a = "decompressing" /\ b = "decompress_complete"
  \/ a = "decompress_complete" /\ b = "parsing"
  \/ a = "parsing" /\ b = "complete"
  \/ a \in {"decompressing", "decompress_complete", "parsing"} /\ b \in {"error", "cancelled"}

\* C13: over pipeline runs that do not overlap, the parser status state is
\* always one of the seven states and every change of it follows an edge of
\* the state machine.
C13_StateEdges ==
  [][/\ parser_status'.state \in ParserStates
     /\ parser_status'.state # parser_status.state =>
          AllowedEdge(parser_status.state, parser_status'.state)]_vars

\* decompress_xz has returned False without recording an error: it stopped
\* on the cancellation flag.
DecompressCancelled(t) == pc[t] = "r_dec_failed" /\ parser_status.state = "decompressing"

\* C14: every chunk decompress_xz writes is the next chunk of the
\* decompressed content, and right after writing it the call returns failure
\* exactly when the cancellation flag is set; after that return the output
\* gets no further chunk (it stays as it is until the temporary directory
\* goes); the call succeeds only when the whole content has been written,
\* and the state is then decompress_complete.
C14_DecompressCancel ==
  [][\A t \in Threads :
       /\ (pc[t] = "dec_loop" /\ loc'[t].json # loc[t].json) =>
            /\ Len(loc[t].json) < Len(feed)
            /\ loc'[t].json = Append(loc[t].json, feed[Len(loc[t].json) + 1])
            /\ (pc'[t] = "r_dec_failed") <=> parser_should_cancel
            /\ (pc'[t] = "dec_loop") <=> ~parser_should_cancel
       /\ pc[t] = "r_dec_failed" => loc'[t].json \in {loc[t].json, <<>>}
       /\ (pc[t] = "dec_loop" /\ pc'[t] = "dec_done") =>
            /\ loc[t].json = feed
            /\ parser_status'.state = "decompress_complete"
       /\ (pc[t] = "dec_done" /\ pc'[t] # "dec_done") =>
            /\ pc'[t] \in {"r_clear", "p_start"}
            /\ loc'[t].json = feed
            /\ parser_status'.state = "decompress_complete"]_vars

\* decompress_xz was cancelled in mid-stream: it returned failure and the
\* output holds some but not all of the chunks.
C14_Witness ==
  \E t \in Threads :
    /\ DecompressCancelled(t)
    /\ Len(loc[t].json) > 0 /\ Len(loc[t].json) < Len(feed)
    /\ loc[t].json = SubSeq(feed, 1, Len(loc[t].json))

\* C15: decompress_xz never leaves by an exception, and when it has returned
\* failure for another reason than cancellation the status holds state error
\* and a message that names the failure.
C15_DecompressErrorReturns ==
  \A t \in Threads :
    /\ pc[t] # "r_dec_raised"
    /\ (pc[t] = "r_dec_failed" /\ ~parser_should_cancel) =>
         /\ parser_status.state = "error"
         /\ parser_status.message.text \in {"Decompression error", "File error"}

\* A thread is in parse_and_import's loop or past it.
InParse(t) ==
  pc[t] \in {"p_loop", "p_exec", "p_commit", "p_status", "p_complete", "r_parse_ret"}

\* The entries a run has appended so far: those handed to _insert_batch and
\* those still in the buffer.
Appended(t) ==
  Flatten(loc[t].flushed) \o (IF pc[t] = "p_loop" THEN loc[t].entries ELSE <<>>)

\* C16: no row of the store, and no entry on its way to it, has an empty
\* channel or an empty theme.
C16_NoEmptyChannelOrTheme ==
  /\ \A r \in dbDurable \cup dbWork : r.channel # Empty /\ r.theme # Empty
  /\ \A t \in Threads : \A i \in 1..Len(Appended(t)) :
       Appended(t)[i].channel # Empty /\ Appended(t)[i].theme # Empty

\* A full import has returned whose first record has a channel and no theme,
\* resolved or inherited; the record is not in the store while a later
\* record is.
C16_Witness ==
  \E t \in Threads :
    /\ Completed(t) /\ loc[t].route = "full"
    /\ Len(feed[1]) >= 3 /\ feed[1][1] # Empty /\ feed[1][2] = Empty
    /\ dbDurable # {}
    /\ \A r \in dbDurable : r.theme # Empty

\* The positions of the consumed records that have at least 3 tokens.
LongConsumed(t) == {i \in 1..(loc[t].idx - 1) : Len(feed[i]) >= 3}

\* C17: a record with fewer than 3 tokens is never mapped: a run has appended
\* at most as many entries as it has consumed records of at least 3 tokens,
\* each entry has the title of one of these, and so has every stored row.
C17_ShortRecordsSkipped ==
  /\ \A t \in Threads :
       InParse(t) =>
         /\ Len(Appended(t)) <= Cardinality(LongConsumed(t))
         /\ \A j \in 1..Len(Appended(t)) :
              \E i \in LongConsumed(t) : Appended(t)[j].title = feed[i][3]
  /\ \A r \in dbDurable \cup dbWork :
       \E i \in 1..Len(feed) : Len(feed[i]) >= 3 /\ r.title = feed[i][3]

\* A run has returned on a feed with a two-token record that carries a
\* channel and a theme, after a record that was stored.
C17_Witness ==
  \E t \in Threads :
    /\ Completed(t)
    /\ \E i \in 2..Len(feed) :
         Len(feed[i]) < 3 /\ feed[i][1] # Empty /\ feed[i][2] # Empty
    /\ Cardinality(dbDurable) = Cardinality(LongConsumed(t))
    /\ dbDurable # {}

\* Token k of the last consumed record of at least 3 tokens in which that
\* token is not empty; empty when there is none.
LastToken(t, k) ==
  LET S == {i \in LongConsumed(t) : feed[i][k] # Empty} IN
  IF S = {} THEN Empty
  ELSE feed[CHOOSE i \in S : \A j \in S : j <= i][k]

\* C18: in the loop, the inheritance context holds the resolved channel and
\* theme of the last record of at least 3 tokens, that is the last non-empty
\* channel token and the last non-empty theme token seen in such records,
\* whether these records were dropped or not.
C18_ContextIsResolved ==
  \A t \in Threads :
    pc[t] = "p_loop" =>
      /\ loc[t].ctx.channel = LastToken(t, 1)
      /\ loc[t].ctx.theme = LastToken(t, 2)

\* The first record has a channel and no theme and was dropped; the second
\* has a theme and no channel and is stored with the channel of the first.
C18_Witness ==
  \E t \in Threads :
    /\ Completed(t) /\ Len(feed) >= 2
    /\ Len(feed[1]) >= 3 /\ feed[1][1] # Empty /\ feed[1][2] = Empty
    /\ Len(feed[2]) >= 3 /\ feed[2][1] = Empty /\ feed[2][2] # Empty
    /\ \E r \in dbDurable :
         r.channel = feed[1][1] /\ r.theme = feed[2][2] /\ r.title = feed[2][3]
    /\ \A r \in dbDurable : r.title # feed[1][3] \/ r.theme # Empty

\* C19: the context of a run starts empty and is the run's own: as long as
\* the run has consumed no record of at least 3 tokens with a channel token,
\* its context has no channel and it has mapped nothing, and likewise for
\* the theme, whatever earlier runs and the run of the other thread have
\* seen.
C19_ContextPrivate ==
  \A t \in Threads :
    InParse(t) =>
      /\ (\A i \in LongConsumed(t) : feed[i][1] = Empty) =>
           loc[t].ctx.channel = Empty /\ Appended(t) = <<>>
      /\ (\A i \in LongConsumed(t) : feed[i][2] = Empty) =>
           loc[t].ctx.theme = Empty /\ Appended(t) = <<>>

\* One run has resolved a channel and a theme and its rows are stored, while
\* the run of the other thread has consumed only the first record of the
\* feed, which has neither channel nor theme, and has dropped it.
C19_Witness ==
  \E t, u \in Threads :
    /\ t # u
    /\ pc[u] = "p_loop" /\ loc[u].ctx.channel # Empty /\ loc[u].ctx.theme # Empty
    /\ pc[t] = "p_loop" /\ loc[t].idx = 2
    /\ Len(feed[1]) >= 3 /\ feed[1][1] = Empty /\ feed[1][2] = Empty
    /\ loc[t].ctx = [channel |-> Empty, theme |-> Empty]
    /\ loc[t].entries = <<>>

\* C20: when a full import into the cleared store has run to the end of the
\* feed and returned, the count it returned is the number of rows in the
\* store.
C20_ReturnedCount ==
  \A t \in Threads :
    (Completed(t) /\ loc[t].route = "full" /\ ~loc[t].broke) =>
      loc[t].result = Cardinality(dbDurable)

\* C21: when a full import (the route that supplies a progress callback) has
\* returned, the callback has been invoked once for every batch the run
\* flushed, the flush of the remaining entries at the end of the run
\* included.
C21_CallbackPerFlush ==
  \A t \in Threads :
    (Completed(t) /\ loc[t].route = "full") =>
      Len(loc[t].callbacks) = Len(loc[t].flushed)

\* C22: a full import that has completed leaves in the store exactly the
\* rows its feed determines on an empty table (the first record of every
\* key), whatever the table held before the run; so a second full import of
\* the same feed leaves the same rows as the first.
C22_FullImportIdempotent ==
  \A t \in Threads :
    (Completed(t) /\ loc[t].route = "full") =>
      dbDurable = ApplyEntries({}, MapRecords(feed, EmptyContext), FALSE)

\* A second full import has completed: the table listed before it started
\* held the row only a full import leaves (the first of two records of one
\* key), and the table holds the same rows again.
C22_Witness ==
  /\ Completed(1) /\ loc[1].route = "full"
  /\ observed.service = "entries"
  /\ observed.status = dbDurable
  /\ \E i, j \in 1..Len(feed) :
       /\ i < j
       /\ MapRecords(<<feed[i]>>, EmptyContext) # <<>>
       /\ \E e \in dbDurable :
            /\ e = MapRecords(<<feed[i]>>, EmptyContext)[1]
            /\ \E d \in {MapRecords(SubSeq(feed, 1, j), EmptyContext)} :
                 /\ Len(d) = j
                 /\ KeyOf(d[j]) = KeyOf(e)
                 /\ d[j] # e

\* The keys of the records a feed maps to.
FeedKeys == {KeyOf(MapRecords(feed, EmptyContext)[i]) :
               i \in 1..Len(MapRecords(feed, EmptyContext))}

\* C23: during and after a diff import every row the table held when the
\* run started still has a row of its key, and a row whose key is not among
\* the keys of the feed's records is still there unchanged.
C23_DiffKeepsOtherRows ==
  \A t \in Threads :
    ((InParse(t) \/ pc[t] = "p_read") /\ loc[t].route = "diff") =>
      \A r \in loc[t].base :
        /\ \E r2 \in dbDurable : KeyOf(r2) = KeyOf(r)
        /\ KeyOf(r) \notin FeedKeys => r \in dbDurable

\* A diff import has completed on a table that held a row of a key outside
\* the feed and a row of a key the feed updates.
C23_Witness ==
  /\ Completed(1) /\ loc[1].route = "diff"
  /\ \E r \in loc[1].base : KeyOf(r) \notin FeedKeys /\ r \in dbDurable
  /\ \E r \in loc[1].base : KeyOf(r) \in FeedKeys /\ r \notin dbDurable

\* C24: reconstruct_url on the example of its docstring, url
\* "https://example.com/video/stream.mp4" and relative "23|hd_stream.mp4",
\* returns "https://example.com/video/hd_stream.mp4".
C24_DocstringExample ==
  (call.fn = "reconstruct_url" /\ call.args = <<ExampleUrl, ExampleRelative>>) =>
    call.result = Return(ExampleResult)

\* A string of decimal digits, and the number it writes.
IsNumeral(s) == s # <<>> /\ \A i \in 1..Len(s) : s[i] \in {"0", "1", "2", "3", "4", "5", "6", "7", "8", "9"}

\* A text that writes no integer in any notation: empty, or holding a
\* character other than a digit, a sign, a blank or a digit separator.
NotAnInteger(s) ==
  s = <<>> \/ \E i \in 1..Len(s) : s[i] \in {"x", ".", "|"}

C26_EscapesUnescaped ==
  call.fn = "_parse_array_values" =>
    /\ Len(call.result) = Len(call.input)
    /\ \A i \in 1..Len(call.input) :
         call.input[i].quoted => call.result[i] = call.input[i].text

\* An array of two strings has been scanned, the first holding a backslash
\* followed by a quote and then a backslash, the second a quote.
C26_Witness ==
  /\ call.fn = "_parse_array_values"
  /\ Len(call.input) = 2
  /\ call.input[1] = [quoted |-> TRUE, text |-> <<"\\", "\"", "\\">>]
  /\ call.input[2] = [quoted |-> TRUE, text |-> <<"\"">>]
  /\ call.result = <<call.input[1].text, call.input[2].text>>

\* C27: every element of a scanned array that is written without quotes
\* gives the empty token at its own position, and the tokens of the
\* elements after it stay at theirs; an unquoted true at index 19 maps to
\* isNew false and an unquoted number at index 16 to timestamp 0.
C27_UnquotedElements ==
  call.fn = "_parse_array_values" =>
    /\ \A i \in 1..Len(call.input) :
         /\ i <= Len(call.result)
         /\ ~call.input[i].quoted => call.result[i] = Empty
         /\ (call.input[i].quoted /\ \E j \in 1..(i - 1) : ~call.input[j].quoted) =>
              call.result[i] = call.input[i].text
    /\ (Len(call.input) = 20 /\ ~call.input[20].quoted) => ~ParseIsNew(call.result)
    /\ (Len(call.input) = 20 /\ ~call.input[17].quoted) => ParseTimestamp(call.result) = 0

\* A complete record with an unquoted number at index 16 and an unquoted
\* true at index 19 has been scanned into 20 tokens.
C27_Witness ==
  /\ call.fn = "_parse_array_values"
  /\ Len(call.input) = 20
  /\ ~call.input[17].quoted /\ ~call.input[20].quoted
  /\ Len(call.result) = 20
  /\ call.result[19] = <<"g", "1">>

\* The stored rows of the key of the feed's first record.
FirstRows == {r \in dbDurable : KeyOf(r) = <<feed[1][1], feed[1][2], feed[1][3]>>}

\* A text that reads "true" when case is ignored.
IsTrueText(tok) ==
  /\ Len(tok) = 4
  /\ tok[1] \in {"t", "T"} /\ tok[2] \in {"r", "R"}
  /\ tok[3] \in {"u", "U"} /\ tok[4] \in {"e", "E"}

\* C28: after a completed import the row of the feed's first record has
\* isNew true exactly when the record has a token at index 19 and that token
\* reads "true" with case ignored; for any other token and for a record of
\* fewer than 20 tokens it has isNew false.
C28_IsNew ==
  \A t \in Threads :
    Completed(t) =>
      /\ FirstRows # {}
      /\ \A r \in FirstRows :
           r.isNew = (Len(feed[1]) >= 20 /\ IsTrueText(feed[1][20]))

\* An import of a record whose token at index 19 is "TRUE" has completed and
\* its row has isNew true.
C28_Witness ==
  /\ Completed(1)
  /\ Len(feed[1]) = 20
  /\ feed[1][20] = <<"T", "R", "U", "E">>
  /\ \E r \in FirstRows : r.isNew

\* The index of the token every text field is taken from.
FieldIndex ==
  [title |-> 2, date |-> 3, time |-> 4, duration |-> 5, sizeMB |-> 6,
   description |-> 7, url |-> 8, website |-> 9, subtitleUrl |-> 10,
   smallUrl |-> 12, hdUrl |-> 14, geo |-> 18]

\* A text that writes an integer in base 10: digits behind at most one sign.
IsDecimal(tok) ==
  LET body == IF tok # <<>> /\ Head(tok) \in {"+", "-"} THEN Tail(tok) ELSE tok
  IN IsNumeral(body)

DecimalValue(tok) ==
  IF Head(tok) = "-" THEN 0 - DigitsValue(Tail(tok), 0)
  ELSE IF Head(tok) = "+" THEN DigitsValue(Tail(tok), 0)
  ELSE DigitsValue(tok, 0)

\* C29: after a completed import of a record of 3 to 20 tokens its row is
\* stored, every text field holds the token at the field's index or the
\* empty string when the record is shorter, timestamp is the number the
\* token at index 16 writes or 0 when the token is missing or writes no
\* base-10 integer, and isNew is false when there is no token at index 19.
C29_FieldsByIndex ==
  \A t \in Threads :
    Completed(t) =>
      /\ FirstRows # {}
      /\ \A r \in FirstRows :
           /\ \A f \in DOMAIN FieldIndex :
                r[f] = IF Len(feed[1]) > FieldIndex[f]
                       THEN feed[1][FieldIndex[f] + 1] ELSE <<>>
           /\ Len(feed[1]) <= 16 => r.timestamp = 0
           /\ (Len(feed[1]) > 16 /\ IsDecimal(feed[1][17])) =>
                r.timestamp = DecimalValue(feed[1][17])
           /\ (Len(feed[1]) > 16 /\ NotAnInteger(feed[1][17])) => r.timestamp = 0
           /\ Len(feed[1]) <= 19 => r.isNew = FALSE

\* An import of a record of 10 tokens has completed: its row holds the
\* tokens up to index 9 and the defaults of the fields beyond.
C29_Witness ==
  /\ Completed(1)
  /\ Len(feed[1]) = 10
  /\ \E r \in FirstRows :
       /\ r.website = <<"w", "1">>
       /\ r.subtitleUrl = <<>> /\ r.timestamp = 0 /\ ~r.isNew

\* The keys of a set of rows.
Keys(rows) == {KeyOf(r) : r \in rows}

\* C30: a run whose loop is at its cancellation test with the flag set maps
\* and buffers no further record (the test and the mapping of a record are
\* one step, so the record being processed when the flag was set is the
\* only one mapped after it); after the break the run scans no more; no
\* step of the import removes a committed row; and when the run has
\* returned, the store holds what the records scanned before the break give
\* on the rows the run started from: every buffered record flushed, none of
\* the later records written.
C30_CancelInLoop ==
  [][\A t \in Threads :
       /\ (pc[t] = "p_loop" /\ parser_should_cancel /\ loc'[t] # loc[t]
             /\ loc[t].idx <= Len(loc[t].content)) =>
            /\ loc'[t].broke
            /\ loc'[t].idx = loc[t].idx
            /\ loc'[t].entries = loc[t].entries
       /\ (loc[t].broke /\ loc'[t].broke) => loc'[t].idx = loc[t].idx
       /\ ((InParse(t) \/ pc[t] = "p_read") /\ InParse(t)') =>
            Keys(dbDurable) \subseteq Keys(dbDurable')
       /\ (Completed(t)' /\ loc'[t].broke) =>
            dbDurable' = ApplyEntries(loc'[t].base,
                                      MapRecords(SubSeq(feed, 1, loc'[t].idx - 1),
                                                 EmptyContext),
                                      loc'[t].route = "diff")
  ]_vars

\* A cancelled run has returned: it broke out of the loop with records left
\* unscanned, and the batch it had buffered is in the store.
C30_Witness ==
  /\ Completed(1)
  /\ loc[1].broke
  /\ loc[1].idx <= Len(feed)
  /\ loc[1].entries # <<>>
  /\ loc[1].committed = 1
  /\ dbDurable # {}

\* C31: a cancel request made before a pipeline request's download began
\* (while no run was active, or during an earlier request) has no effect on
\* that request's decompress_xz: decompress_xz is ended by the flag only
\* when a cancel was requested since the download began, which is when the
\* download's own flag, set by the same cancel request, is still set.
C31_StaleCancelIgnored ==
  \A t \in Threads : DecompressCancelled(t) => download_should_cancel

\* C32: a cancel request made after decompress_xz passed its last test of
\* the flag and before parse_and_import begins scanning is honoured: the
\* flag it set is still set when the scan of the records begins.
C32_CancelBeforeScanHonoured ==
  [][\A t \in Threads :
       (pc[t] = "p_start" /\ parser_should_cancel /\ pc'[t] = "p_read") =>
         parser_should_cancel'
  ]_vars

\* Where a full-import request is before it clears the table.
BeforeClear ==
  {"dl_guard", "dl_head", "dl_loop", "dl_progress", "dl_finally", "r_dl_failed",
   "dec_start", "dec_loop", "dec_done", "r_dec_failed", "r_dec_raised"}

\* C33: no step of a full-import request before its clearing step changes
\* the store; the request reaches the clearing step only with its download
\* succeeded and its file decompressed to the end; and after a failed or
\* cancelled download or decompression the request ends without running a
\* later stage.
C33_ClearAfterBothStages ==
  [][\A t \in Threads :
       /\ (loc[t].route = "full" /\ pc[t] \in BeforeClear) =>
            (dbWork' = dbWork /\ dbDurable' = dbDurable)
       /\ (pc[t] # "r_clear" /\ pc'[t] = "r_clear") =>
            /\ loc[t].dl_ok
            /\ Len(loc[t].json) = Len(loc[t].xz)
            /\ parser_status'.state = "decompress_complete"
       /\ (pc[t] \in {"r_dl_failed", "r_dec_failed", "r_dec_raised"} /\ pc'[t] # pc[t]) =>
            pc'[t] = "idle"
  ]_vars

\* A full-import request on a table that holds rows has ended after its
\* decompression was cancelled, the rows still there.
C33_Witness ==
  /\ pc[1] = "r_dec_failed"
  /\ loc[1].route = "full"
  /\ parser_status.state = "decompressing"
  /\ dbDurable # {}
  /\ dbWork = dbDurable

\* C34: a record whose string tokens hold "]" characters is scanned into
\* the tokens of its strings, each with its value at its position, as a
\* record without "]" is.
C34_BracketInToken ==
  call.fn = "match.group(1)" =>
    call.result = [i \in 1..Len(call.input) |-> call.input[i].text]

\* C35: every count the progress callback has been handed is the number of
\* entries flushed up to that call and is greater than the count before it;
\* entries_parsed does not decrease from one step of the import to the
\* next; and when the run has completed, entries_parsed is the returned
\* count and progress is 100.
C35_ProgressCounts ==
  [][\A t \in Threads :
       /\ \A i \in 1..Len(loc'[t].callbacks) :
            /\ loc'[t].callbacks[i] = Len(Flatten(SubSeq(loc'[t].flushed, 1, i)))
            /\ i > 1 => loc'[t].callbacks[i] > loc'[t].callbacks[i - 1]
       /\ (InParse(t) /\ InParse(t)') =>
            parser_status'.entries_parsed >= parser_status.entries_parsed
       /\ Completed(t)' =>
            /\ parser_status'.entries_parsed = loc'[t].result
            /\ parser_status'.progress = 100
  ]_vars

\* A full import has completed after two calls of the callback and a last
\* flush of the record left over.
C35_Witness ==
  /\ Completed(1)
  /\ Len(loc[1].callbacks) = 2
  /\ loc[1].committed = 3
  /\ parser_status.entries_parsed = 2 * PARSER_BATCH_SIZE + 1

C37_CacheBounded == Cardinality(DOMAIN cache) <= SEARCH_CACHE_MAX_SIZE

\* C38: a search answered from the cache, on the rows the call that ran the
\* query saw, returns the pair that call returned: the same results and the
\* same total.
C38_RepeatedSearch ==
  \A t \in Threads :
    (srch[t].at = "done" /\ srch[t].hit
       /\ srch[t].key = returned.key
       /\ returned.rows = dbWork) =>
      /\ srch[t].results = returned.results
      /\ srch[t].total = returned.total

====
